---- MODULE Spec2Model ----
(***************************************************************************)
(* A model of the route-controller macro pass (src/src/parser/*.rs,        *)
(* src/src/generator/*.rs) and of the dispatch code it generates.          *)
(*                                                                         *)
(* Text is a sequence of atoms: a punctuation character ("/", "{", "}",    *)
(* ":", "(", ")", ",", "=", the double quote) or a word (an identifier or  *)
(* a run of literal text).  White space is left out (the parser trims      *)
(* it).  The searches of the parser (find('"'), find("extract"),           *)
(* find('('), split(',') ...) are computed on atoms as the code computes   *)
(* them on characters.  A name is the text of an identifier: <<"id">>.     *)
(*                                                                         *)
(* generate_route_registrations and generate_router_impl are modelled as   *)
(* generator/router.rs defines them, with the ControllerConfig, and        *)
(* generate_wrapper_functions as generator/wrappers.rs defines it, from    *)
(* the impl block alone.                                                   *)
(*                                                                         *)
(* Handler parameters are identifier patterns (syn::Pat::Ident); for any   *)
(* other pattern analyze_params itself warns that the extractor mapping    *)
(* may not work (params.rs:33-36).                                         *)
(***************************************************************************)
EXTENDS Integers, Sequences, FiniteSets, TLC

(***************************************************************************)
(* Bounds of the model.                                                    *)
(***************************************************************************)
\* number of '/'-separated segments of a route path drawn by InitPaths
MaxSegs == 2
\* number of names an extractor map drawn by InitExtractors may hold
MaxEntries == 3
\* number of handler parameters drawn by InitWrap
MaxParams == 2
\* number of middlewares a controller declares
MaxMiddlewares == 3
\* number of header(...) directives at one level
MaxHeaders == 2
\* number of pairs of an extract(...) list drawn by InitParse
MaxPairs == 2
\* number of attributes other than a route annotation drawn by InitAttrs
MaxAttrs == 2

(***************************************************************************)
(* Generic helpers.                                                        *)
(***************************************************************************)
Range(s) == {s[i] : i \in DOMAIN s}

Reverse(s) == [i \in 1..Len(s) |-> s[Len(s) + 1 - i]]

\* the sequences that enumerate the finite set S once each: the orders in
\* which a HashMap / HashSet of the pass may be iterated
IterOrders(S) ==
  {f \in [1..Cardinality(S) -> S] : \A i, j \in 1..Cardinality(S) : f[i] = f[j] => i = j}

SeqsUpTo(S, n) == UNION {[1..k -> S] : k \in 0..n}

Min(S) == CHOOSE x \in S : \A y \in S : x <= y

(***************************************************************************)
(* ExtractorType (extractor_types.rs).                                     *)
(***************************************************************************)
BodyKinds == {"Json", "Form", "Bytes", "Text", "Html", "Xml", "JavaScript"}

KnownKinds == {"Path", "Query", "HeaderParam", "CookieParam", "SessionParam", "State"}
                \cup BodyKinds

ExtractorType == KnownKinds \cup {"None"}

\* from_str taking an unknown name for None
from_str_AnyName(s) == IF Len(s) = 1 /\ s[1] \in KnownKinds THEN s[1] ELSE "None"

\* ExtractorType::from_str: the kind, or "Err" for an unknown name
from_str(s) == IF Len(s) = 1 /\ s[1] \in KnownKinds THEN s[1] ELSE "Err"

\* is_body_extractor with the Xml arm of the match left out
is_body_extractor_NoXml(ext) == ext \in BodyKinds \ {"Xml"}

is_body_extractor(ext) == ext \in BodyKinds

\* requires_feature: the feature name, or "NoFeature"
requires_feature(ext) ==
  CASE ext = "HeaderParam" -> "headers"
    [] ext = "CookieParam" -> "cookies"
    [] ext = "SessionParam" -> "sessions"
    [] OTHER -> "NoFeature"

Methods == {"get", "head", "delete", "options", "patch", "post", "put", "trace", "connect"}

\* a diagnostic of proc_macro_error: level "abort" | "error" | "warning", and
\* the names its message holds
Diag(level, kind, names) == [level |-> level, kind |-> kind, names |-> names]

\* Option<T>
None == [some |-> FALSE, v |-> <<>>]

Some(v) == [some |-> TRUE, v |-> v]

\* HashMap::insert
Insert(m, k, v) == [x \in (DOMAIN m) \cup {k} |-> IF x = k THEN v ELSE m[x]]

EmptyMap == [x \in {} |-> "None"]

(***************************************************************************)
(* validate_extractors (extractor_types.rs:69-115).  `order` is the order  *)
(* in which the HashMap `extractors` is iterated.  The result is the       *)
(* sequence of diagnostics; abort_call_site! ends the pass, so nothing     *)
(* follows an "abort".                                                     *)
(***************************************************************************)
body_extractors(extractors, order) ==
  SelectSeq(order, LAMBDA n : is_body_extractor(extractors[n]))

FeatureWarnings(extractors, order) ==
  LET gated == SelectSeq(order, LAMBDA n : requires_feature(extractors[n]) # "NoFeature")
  IN  [i \in 1..Len(gated) |-> Diag("warning", "feature", <<gated[i]>>)]

validate_extractors(extractors, route_method, order) ==
  LET be == body_extractors(extractors, order)
  IN  IF Len(be) > 1
      THEN <<Diag("abort", "multiple_body", be)>>
      ELSE (IF route_method \in {"get", "head", "delete"} /\ be # <<>>
            THEN <<Diag("warning", "body_on_bodyless_method", <<be[1]>>)>>
            ELSE <<>>)
           \o FeatureWarnings(extractors, order)

(***************************************************************************)
(* validate_path_parameters (route.rs:19-77).  A path is a sequence of     *)
(* text atoms.                                                             *)
(***************************************************************************)
\* str::split('/'): the segments between the separators
RECURSIVE Split(_, _)
Split(s, sep) ==
  IF \A i \in DOMAIN s : s[i] # sep
  THEN <<s>>
  ELSE LET i == Min({j \in DOMAIN s : s[j] = sep})
       IN  <<SubSeq(s, 1, i - 1)>> \o Split(SubSeq(s, i + 1, Len(s)), sep)

\* route.rs:25-29: the placeholder a segment holds, as a set of 0 or 1 names
SegmentParam(capture) ==
  IF Len(capture) >= 2 /\ capture[1] = "{" /\ capture[Len(capture)] = "}"
  THEN {SubSeq(capture, 2, Len(capture) - 1)}
  ELSE IF Len(capture) >= 1 /\ capture[1] = ":"
       THEN {SubSeq(capture, 2, Len(capture))}
       ELSE {}

\* route.rs:21-30: the HashSet path_params
path_params_of(path) == UNION {SegmentParam(c) : c \in Range(Split(path, "/"))}

\* PathErrors without the check of the kind of an entry that is present
PathErrors_MissingOnly(path, extractors, porder) ==
  LET wrong == SelectSeq(porder, LAMBDA p : p \notin DOMAIN extractors)
  IN  [i \in 1..Len(wrong) |-> Diag("error", "path_param_no_extractor", <<wrong[i]>>)]

\* route.rs:33-56, `porder` the iteration order of path_params
PathErrors(path, extractors, porder) ==
  LET wrong == SelectSeq(porder, LAMBDA p : ~(p \in DOMAIN extractors /\ extractors[p] = "Path"))
  IN  [i \in 1..Len(wrong) |->
        IF wrong[i] \in DOMAIN extractors
        THEN Diag("error", "path_param_wrong_extractor", <<wrong[i]>>)
        ELSE Diag("error", "path_param_no_extractor", <<wrong[i]>>)]

\* PathWarnings raising an error for each Path entry outside the path
PathWarnings_AsErrors(path, extractors, order) ==
  LET extra == SelectSeq(order, LAMBDA n : extractors[n] = "Path" /\ n \notin path_params_of(path))
  IN  [i \in 1..Len(extra) |-> Diag("error", "path_extractor_not_in_path", <<extra[i]>>)]

\* route.rs:58-76, `order` the iteration order of extractors
PathWarnings(path, extractors, order) ==
  LET extra == SelectSeq(order, LAMBDA n : extractors[n] = "Path" /\ n \notin path_params_of(path))
  IN  [i \in 1..Len(extra) |-> Diag("warning", "path_extractor_not_in_path", <<extra[i]>>)]

validate_path_parameters(path, extractors, porder, order) ==
  PathErrors(path, extractors, porder) \o PathWarnings(path, extractors, order)

(***************************************************************************)
(* extract_route_from_attrs (route.rs:79-242).  An attribute is            *)
(* [segments, ident, text]: the number of segments of its path, its last   *)
(* identifier, and the text of attr.meta.to_token_stream().                *)
(***************************************************************************)
Q == "\""

\* str::find from position `from`: the first index, or 0
Find(s, a, from) ==
  IF \E i \in DOMAIN s : i >= from /\ s[i] = a
  THEN Min({i \in DOMAIN s : i >= from /\ s[i] = a})
  ELSE 0

\* str::replace('"', "")
RemoveQuotes(s) == SelectSeq(s, LAMBDA a : a # Q)

\* ParsePath storing the literal as written
ParsePath_AsWritten(attr_str) ==
  LET start == Find(attr_str, Q, 1)
      end == IF start = 0 THEN 0 ELSE Find(attr_str, Q, start + 1)
      path == SubSeq(attr_str, start + 1, end - 1)
  IN  IF start = 0 \/ end = 0 \/ path = <<>> THEN <<"/">> ELSE path

\* route.rs:92, 100-111: the first quoted string, normalized; "/" by default
ParsePath(attr_str) ==
  LET start == Find(attr_str, Q, 1)
      end == IF start = 0 THEN 0 ELSE Find(attr_str, Q, start + 1)
      path == SubSeq(attr_str, start + 1, end - 1)
  IN  IF start = 0 \/ end = 0 \/ path = <<>>
      THEN <<"/">>
      ELSE IF path[1] # "/" THEN <<"/">> \o path ELSE path

\* the text between the first '(' after position `at` and the next ')':
\* [found, content, end]
ParenContent(attr_str, at) ==
  LET paren_start == Find(attr_str, "(", at)
      paren_end == IF paren_start = 0 THEN 0 ELSE Find(attr_str, ")", paren_start + 1)
  IN  [open |-> paren_start # 0,
       found |-> paren_start # 0 /\ paren_end # 0,
       content |-> SubSeq(attr_str, paren_start + 1, paren_end - 1),
       end |-> paren_end]

\* route.rs:121-147: the pairs of an extract(...) list, folded into the map
RECURSIVE ParsePairs(_, _, _)
ParsePairs(pairs, extractors, diags) ==
  IF pairs = <<>>
  THEN [extractors |-> extractors, diags |-> diags]
  ELSE LET parts == Split(Head(pairs), "=")
       IN  IF Len(parts) = 2
           THEN IF from_str(parts[2]) # "Err"
                THEN ParsePairs(Tail(pairs), Insert(extractors, parts[1], from_str(parts[2])), diags)
                ELSE ParsePairs(Tail(pairs), Insert(extractors, parts[1], "None"),
                                Append(diags, Diag("error", "unknown_extractor", <<parts[2]>>)))
           ELSE IF Len(parts) = 1 /\ parts[1] # <<>>
                THEN ParsePairs(Tail(pairs), extractors,
                                Append(diags, Diag("error", "invalid_extractor_syntax", <<parts[1]>>)))
                ELSE ParsePairs(Tail(pairs), extractors, diags)

\* ParseExtract reading only the first pair of the list
ParseExtract_FirstPair(attr_str) ==
  LET extract_start == Find(attr_str, "extract", 1)
      arg == ParenContent(attr_str, extract_start)
  IN  IF extract_start = 0 \/ ~arg.found
      THEN [extractors |-> EmptyMap, diags |-> <<>>]
      ELSE ParsePairs(<<Head(Split(arg.content, ","))>>, EmptyMap, <<>>)

\* route.rs:113-150
ParseExtract(attr_str) ==
  LET extract_start == Find(attr_str, "extract", 1)
      arg == ParenContent(attr_str, extract_start)
  IN  IF extract_start = 0 \/ ~arg.found
      THEN [extractors |-> EmptyMap, diags |-> <<>>]
      ELSE ParsePairs(Split(arg.content, ","), EmptyMap, <<>>)

\* route.rs:159-183: one header(...) argument list
ParseHeaderContent(header_content) ==
  LET eq_pos == Find(header_content, "=", 1)
      parts == Split(header_content, ",")
      empty(n, v) == IF n = <<>> \/ v = <<>>
                     THEN <<Diag("warning", "empty_header", <<>>)>> ELSE <<>>
  IN  IF eq_pos # 0
      THEN LET n == RemoveQuotes(SubSeq(header_content, 1, eq_pos - 1))
               v == RemoveQuotes(SubSeq(header_content, eq_pos + 1, Len(header_content)))
           IN  [headers |-> <<(<<n, v>>)>>, diags |-> empty(n, v)]
      ELSE IF Len(parts) = 2
           THEN LET n == RemoveQuotes(parts[1])
                    v == RemoveQuotes(parts[2])
                IN  [headers |-> <<(<<n, v>>)>>, diags |-> empty(n, v)]
           ELSE [headers |-> <<>>, diags |-> <<Diag("warning", "invalid_header_format", <<>>)>>]

\* route.rs:152-191 and config.rs:67-117: the loop over the occurrences of
\* "header"; only the controller's loop (`ctrl`) warns of an unclosed list
RECURSIVE ParseHeaders(_, _, _)
ParseHeaders(attr_str, search_pos, ctrl) ==
  LET header_start == Find(attr_str, "header", search_pos)
      arg == ParenContent(attr_str, header_start)
  IN  IF header_start = 0 \/ ~arg.found
      THEN [headers |-> <<>>,
            diags |-> IF ctrl /\ header_start # 0 /\ arg.open
                      THEN <<Diag("warning", "unclosed_header", <<>>)>> ELSE <<>>]
      ELSE LET one == ParseHeaderContent(arg.content)
               rest == ParseHeaders(attr_str, arg.end + 1, ctrl)
           IN  [headers |-> one.headers \o rest.headers, diags |-> one.diags \o rest.diags]

\* route.rs:193-206 and config.rs:119-135
ParseContentType(attr_str, ctrl) ==
  LET ct_start == Find(attr_str, "content_type", 1)
      arg == ParenContent(attr_str, ct_start)
      ct_value == RemoveQuotes(arg.content)
  IN  IF ct_start = 0 \/ ~arg.found
      THEN [content_type |-> None,
            diags |-> IF ctrl /\ ct_start # 0 /\ arg.open
                      THEN <<Diag("warning", "unclosed_content_type", <<>>)>> ELSE <<>>]
      ELSE [content_type |-> Some(ct_value),
            diags |-> IF ct_value = <<>>
                      THEN <<Diag("warning", "empty_content_type", <<>>)>> ELSE <<>>]

\* route.rs:208-229: the validation of what was parsed, and the RouteInfo
ValidatedRoute(method, route_path, ex, hd, ct, ve, order, porder) ==
  [route |-> [method |-> method, path |-> route_path, extractors |-> ex.extractors,
              response_headers |-> hd.headers, content_type |-> ct.content_type],
   aborted |-> ve # <<>> /\ ve[Len(ve)].level = "abort",
   diags |-> ex.diags \o hd.diags \o ct.diags \o ve \o
             (IF ve # <<>> /\ ve[Len(ve)].level = "abort" THEN <<>>
              ELSE validate_path_parameters(route_path, ex.extractors, porder, order))]

\* route.rs:92-229 for one attribute whose method is recognized: the
\* RouteInfo and the diagnostics in the order they are emitted.  `order` and
\* `porder` are the iteration orders of extractors and of path_params.
ParseRoute(method, attr_str, ex, order, porder) ==
  ValidatedRoute(method, ParsePath(attr_str), ex, ParseHeaders(attr_str, 1, FALSE),
                 ParseContentType(attr_str, FALSE),
                 validate_extractors(ex.extractors, method, order), order, porder)

\* route.rs:79-242: the loop over the attributes of one function.  The first
\* attribute with a recognized method decides; each one-segment attribute
\* before it is reported as an unknown method.
\* RouteAttr with the last recognized method attribute deciding
RouteAttr_Last(attrs) ==
  LET rec == {i \in DOMAIN attrs : attrs[i].segments = 1 /\ attrs[i].ident \in Methods}
  IN  IF rec = {} THEN 0 ELSE CHOOSE i \in rec : \A j \in rec : j <= i

RECURSIVE RouteAttr(_)
RouteAttr(attrs) ==
  IF attrs = <<>> THEN 0
  ELSE IF Head(attrs).segments = 1 /\ Head(attrs).ident \in Methods THEN 1
  ELSE IF RouteAttr(Tail(attrs)) = 0 THEN 0 ELSE 1 + RouteAttr(Tail(attrs))

UnknownMethodErrors(attrs) ==
  LET upto == IF RouteAttr(attrs) = 0 THEN Len(attrs) ELSE RouteAttr(attrs) - 1
      bad == SelectSeq(SubSeq(attrs, 1, upto), LAMBDA a : a.segments = 1)
  IN  [i \in 1..Len(bad) |-> Diag("error", "unknown_method", <<(<<bad[i].ident>>)>>)]

\* the extractor map and the placeholders of the route of `attrs`: the
\* collections whose iteration order the pass depends on
ExtractorsOf(attrs) ==
  IF RouteAttr(attrs) = 0 THEN EmptyMap
  ELSE ParseExtract(attrs[RouteAttr(attrs)].text).extractors

PathParamsOf(attrs) ==
  IF RouteAttr(attrs) = 0 THEN {}
  ELSE path_params_of(ParsePath(attrs[RouteAttr(attrs)].text))

\* Some(RouteInfo), unless the pass was aborted
RouteResult(errors, r) ==
  [some |-> ~r.aborted, route |-> r.route, aborted |-> r.aborted, diags |-> errors \o r.diags]

RouteOfAttr(errors, a, order, porder) ==
  RouteResult(errors, ParseRoute(a.ident, a.text, ParseExtract(a.text), order, porder))

extract_route_from_attrs(attrs, order, porder) ==
  IF RouteAttr(attrs) = 0
  THEN [some |-> FALSE, aborted |-> FALSE, diags |-> UnknownMethodErrors(attrs)]
  ELSE RouteOfAttr(UnknownMethodErrors(attrs), attrs[RouteAttr(attrs)], order, porder)

(***************************************************************************)
(* analyze_params (params.rs:16-78).  A signature is a sequence of         *)
(* [name, ty]; `order` is the iteration order of extractor_map.            *)
(***************************************************************************)
ParamInfos(sig, extractor_map) ==
  [i \in 1..Len(sig) |->
     [name |-> sig[i].name, ty |-> sig[i].ty,
      extractor_type |-> IF sig[i].name \in DOMAIN extractor_map
                         THEN extractor_map[sig[i].name] ELSE "None"]]

\* params.rs:40-58: the warnings of the loop over the inputs
RECURSIVE ParamWarnings(_, _, _)
ParamWarnings(sig, extractor_map, seen_params) ==
  IF sig = <<>> THEN <<>>
  ELSE LET n == Head(sig).name
       IN  (IF n \notin DOMAIN extractor_map /\ n # <<"unknown">>
            THEN <<Diag("warning", "no_extractor", <<n>>)>> ELSE <<>>)
           \o (IF n \in seen_params
               THEN <<Diag("warning", "duplicate_param", <<n>>)>> ELSE <<>>)
           \o ParamWarnings(Tail(sig), extractor_map, seen_params \cup {n})

\* params.rs:66-75
UnmatchedWarnings(sig, extractor_map, order) ==
  LET seen_params == {sig[i].name : i \in DOMAIN sig}
      un == SelectSeq(order, LAMBDA n : n \notin seen_params)
  IN  [i \in 1..Len(un) |-> Diag("warning", "extractor_without_param", <<un[i]>>)]

analyze_params(sig, extractor_map, order) ==
  [params |-> ParamInfos(sig, extractor_map),
   diags |-> ParamWarnings(sig, extractor_map, {})
             \o UnmatchedWarnings(sig, extractor_map, order)]

WithParams(r, a) ==
  [some |-> TRUE, aborted |-> FALSE, route |-> r.route,
   params |-> a.params, diags |-> r.diags \o a.diags]

AnalyzeRoute(sig, r, order) ==
  IF r.some
  THEN WithParams(r, analyze_params(sig, r.route.extractors, order))
  ELSE [some |-> FALSE, aborted |-> r.aborted, route |-> None,
        params |-> <<>>, diags |-> r.diags]

\* the two calls every loop of the generator makes for an item
\* (router.rs:14-21, wrappers.rs:12-13, router.rs:91-92)
Analyze(it, order, porder) ==
  AnalyzeRoute(it.sig, extract_route_from_attrs(it.attrs, order, porder), order)

(***************************************************************************)
(* parse_controller_attributes (config.rs:14-143).                         *)
(***************************************************************************)
Punctuation == {"/", "{", "}", ":", "(", ")", ",", "=", Q}

\* syn::parse_str::<Path>(value) succeeds, for a value of words and
\* punctuation atoms (a path of one segment)
IsRustPath(value) == value # <<>> /\ \A i \in DOMAIN value : value[i] \notin Punctuation

\* config.rs:23-65: the loop over the comma-separated arguments
RECURSIVE ParseArgs(_, _)
ParseArgs(args, acc) ==
  IF args = <<>> THEN acc
  ELSE LET arg == Head(args)
           parts == Split(arg, "=")
           value == RemoveQuotes(parts[2])
       IN  IF arg # <<>> /\ arg[1] = "path"
           THEN IF Len(parts) = 2
                THEN ParseArgs(Tail(args),
                       [acc EXCEPT
                          !.route_prefix = Some(IF value = <<>> \/ value[1] # "/"
                                                THEN <<"/">> \o value ELSE value),
                          !.diags = @ \o (IF value = <<>>
                                           THEN <<Diag("warning", "empty_path", <<>>)>>
                                           ELSE <<>>)])
                ELSE ParseArgs(Tail(args),
                       [acc EXCEPT !.diags = Append(@, Diag("error", "invalid_path_format", <<>>))])
           ELSE IF arg # <<>> /\ arg[1] = "middleware"
           THEN IF Len(parts) = 2
                THEN IF parts[2] = <<>>
                     THEN ParseArgs(Tail(args),
                            [acc EXCEPT !.diags = Append(@, Diag("error", "empty_middleware", <<>>))])
                     ELSE IF IsRustPath(parts[2])
                     THEN ParseArgs(Tail(args), [acc EXCEPT !.middlewares = Append(@, parts[2])])
                     ELSE ParseArgs(Tail(args),
                            [acc EXCEPT !.diags = Append(@, Diag("error", "invalid_middleware", <<parts[2]>>))])
                ELSE ParseArgs(Tail(args),
                       [acc EXCEPT !.diags = Append(@, Diag("error", "invalid_middleware_format", <<>>))])
           ELSE ParseArgs(Tail(args), acc)

parse_controller_attributes(attr_str) ==
  LET args == ParseArgs(Split(attr_str, ","),
                        [route_prefix |-> None, middlewares |-> <<>>, diags |-> <<>>])
      hd == ParseHeaders(attr_str, 1, TRUE)
      ct == ParseContentType(attr_str, TRUE)
  IN  [config |-> [route_prefix |-> args.route_prefix, middlewares |-> args.middlewares,
                   response_headers |-> hd.headers, content_type |-> ct.content_type],
       diags |-> args.diags \o hd.diags \o ct.diags]

(***************************************************************************)
(* The generator.                                                          *)
(***************************************************************************)
\* format!("{}_wrapper", handler_name)
wrapper_name(handler_name) == handler_name \o <<"_wrapper">>

needs_wrapper(params) == \E i \in DOMAIN params : params[i].extractor_type # "None"

\* router.rs:30-33
RegistrationHasResponseHeaders(route_info, controller_config) ==
  \/ route_info.response_headers # <<>>
  \/ route_info.content_type.some
  \/ controller_config.response_headers # <<>>
  \/ controller_config.content_type.some

\* router.rs:20-63: the registration of one route
RouteRegistration(it, route_info, params, controller_config) ==
  [path |-> route_info.path, method |-> route_info.method,
   target |-> IF needs_wrapper(params)
                 \/ RegistrationHasResponseHeaders(route_info, controller_config)
              THEN wrapper_name(it.ident) ELSE it.ident]

\* wrappers.rs:18-19
WrapperHasResponseHeaders(route_info) ==
  route_info.response_headers # <<>> \/ route_info.content_type.some

\* a parameter of the wrapper: the extractor, the names it binds, their types
Binding(extractor, names, tys) == [extractor |-> extractor, names |-> names, tys |-> tys]

\* an argument of the call of the handler: the expression, and the handler
\* parameter it was generated for
Arg(expr, param) == [expr |-> expr, param |-> param]

OfKind(params, kind) == SelectSeq(params, LAMBDA q : q.extractor_type = kind)

\* PathBindings with one Path binding for each Path parameter
PathBindings_Separate(params) ==
  LET path_params == OfKind(params, "Path")
  IN  [i \in 1..Len(path_params) |->
         Binding("Path", <<path_params[i].name>>, <<path_params[i].ty>>)]

\* wrappers.rs:65-126
PathBindings(params) ==
  LET path_params == OfKind(params, "Path")
  IN  IF path_params = <<>> THEN <<>>
      ELSE IF Len(path_params) > 1
      THEN <<Binding("PathTuple", [i \in 1..Len(path_params) |-> path_params[i].name],
                     [i \in 1..Len(path_params) |-> path_params[i].ty])>>
      ELSE <<Binding("Path", <<path_params[1].name>>, <<path_params[1].ty>>)>>

PathArgs(params) ==
  LET path_params == OfKind(params, "Path")
  IN  [i \in 1..Len(path_params) |-> Arg("var", path_params[i].name)]

\* SharedBindings with one binding of its source for each parameter
SharedBindings_PerParam(params) ==
  LET shared == SelectSeq(params, LAMBDA q : q.extractor_type \in
                            {"State", "HeaderParam", "CookieParam", "SessionParam"})
  IN  [i \in 1..Len(shared) |->
         CASE shared[i].extractor_type = "State" ->
                Binding("State", <<(<<"state">>)>>, <<shared[i].ty>>)
           [] shared[i].extractor_type = "HeaderParam" ->
                Binding("HeaderMap", <<(<<"headers">>)>>, <<(<<"HeaderMap">>)>>)
           [] shared[i].extractor_type = "CookieParam" ->
                Binding("CookieJar", <<(<<"cookies">>)>>, <<(<<"CookieJar">>)>>)
           [] OTHER -> Binding("Session", <<(<<"session">>)>>, <<(<<"Session">>)>>)]

\* wrappers.rs:52-63, 128-142
SharedBindings(params) ==
  (IF OfKind(params, "State") # <<>>
   THEN <<Binding("State", <<(<<"state">>)>>, <<OfKind(params, "State")[1].ty>>)>> ELSE <<>>)
  \o (IF OfKind(params, "HeaderParam") # <<>>
      THEN <<Binding("HeaderMap", <<(<<"headers">>)>>, <<(<<"HeaderMap">>)>>)>> ELSE <<>>)
  \o (IF OfKind(params, "CookieParam") # <<>>
      THEN <<Binding("CookieJar", <<(<<"cookies">>)>>, <<(<<"CookieJar">>)>>)>> ELSE <<>>)
  \o (IF OfKind(params, "SessionParam") # <<>>
      THEN <<Binding("Session", <<(<<"session">>)>>, <<(<<"Session">>)>>)>> ELSE <<>>)

\* wrappers.rs:144-241: what one parameter adds to wrapper_params
ParamBinding(q) ==
  CASE q.extractor_type \in {"Json", "Form", "Query"} ->
         <<Binding(q.extractor_type, <<q.name>>, <<q.ty>>)>>
    [] q.extractor_type = "Bytes" -> <<Binding("Bytes", <<q.name>>, <<(<<"Bytes">>)>>)>>
    [] q.extractor_type \in {"Text", "Html", "Xml", "JavaScript"} ->
         <<Binding("String", <<q.name>>, <<(<<"String">>)>>)>>
    [] q.extractor_type = "None" -> <<Binding("Plain", <<q.name>>, <<q.ty>>)>>
    [] OTHER -> <<>>

\* wrappers.rs:144-241: what one parameter adds to call_args
ParamArg(q) ==
  CASE q.extractor_type = "Path" -> <<>>
    [] q.extractor_type = "Bytes" -> <<Arg("to_vec", q.name)>>
    [] q.extractor_type = "HeaderParam" -> <<Arg("headers.get", q.name)>>
    [] q.extractor_type = "CookieParam" -> <<Arg("cookies.get", q.name)>>
    [] q.extractor_type = "SessionParam" -> <<Arg("session.get", q.name)>>
    [] q.extractor_type = "State" -> <<Arg("state.clone", q.name)>>
    [] OTHER -> <<Arg("var", q.name)>>

\* what a request holds for a lookup of a context value: a value, nothing,
\* or something the lookup fails on (a header value that is not visible
\* ASCII, a cookie that does not parse, a session store in error)
LookupOutcomes == {"value", "absent", "invalid"}

\* the lookups unwrapped: a lookup that yields nothing panics
Lookup_Unwrapped(expr, found) ==
  IF expr \notin {"headers.get", "cookies.get", "session.get"} THEN "extracted"
  ELSE IF found = "value" THEN "stored" ELSE "panic"

\* wrappers.rs:198-203, 210-214, 222-228: what a call argument evaluates
\* to; and_then(to_str().ok()).unwrap_or(""), map(..).unwrap_or_default()
\* and ok().flatten().unwrap_or_default() each replace a lookup without a
\* result by the empty string or by the default of the parameter's type
Lookup(expr, found) ==
  CASE expr = "headers.get" -> IF found = "value" THEN "stored" ELSE "empty_string"
    [] expr = "cookies.get" -> IF found = "value" THEN "stored" ELSE "empty_string"
    [] expr = "session.get" -> IF found = "value" THEN "stored" ELSE "default"
    [] OTHER -> "extracted"

\* wrappers.rs:145: the loop over params
RECURSIVE ParamBindings(_)
ParamBindings(params) ==
  IF params = <<>> THEN <<>> ELSE ParamBinding(Head(params)) \o ParamBindings(Tail(params))

RECURSIVE ParamArgs(_)
ParamArgs(params) ==
  IF params = <<>> THEN <<>> ELSE ParamArg(Head(params)) \o ParamArgs(Tail(params))

wrapper_params(params) ==
  PathBindings(params) \o SharedBindings(params) \o ParamBindings(params)

call_args(params) == PathArgs(params) \o ParamArgs(params)

\* wrappers.rs:253-289: the pairs of the array the wrapper returns with the
\* response, in the order of the array
HeaderArray(route_info) ==
  (IF route_info.content_type.some
   THEN <<(<<(<<"content-type">>), route_info.content_type.v>>)>> ELSE <<>>)
  \o route_info.response_headers

\* wrappers.rs:12-302: the wrapper of one route, as a sequence of 0 or 1
WrapperFunction(it, route_info, params) ==
  IF needs_wrapper(params) \/ WrapperHasResponseHeaders(route_info)
  THEN <<[name |-> wrapper_name(it.ident), handler |-> it.ident,
          wrapper_params |-> wrapper_params(params),
          call_args |-> call_args(params),
          header_array |-> HeaderArray(route_info)]>>
  ELSE <<>>

\* apply_middlewares emitting the layers in declaration order
apply_middlewares_InOrder(base_router, middlewares) ==
  IF middlewares = <<>> THEN base_router
  ELSE [base_router EXCEPT !.layers = @ \o middlewares]

\* middleware.rs:7-34: the layers in the order the generated code applies them
apply_middlewares(base_router, middlewares) ==
  IF middlewares = <<>> THEN base_router
  ELSE [base_router EXCEPT !.layers = @ \o Reverse(middlewares)]

\* apply_route_prefix returning the router as it is
apply_route_prefix_Unnested(router, prefix) == router

\* middleware.rs:36-46
apply_route_prefix(router, prefix) ==
  IF prefix.some THEN [router EXCEPT !.nest = Append(@, prefix.v)] ELSE router

\* router.rs:71-76
generate_base_router(route_registrations) ==
  [routes |-> route_registrations, layers |-> <<>>, nest |-> <<>>]

(***************************************************************************)
(* The state: the position of controller_impl (controller.rs:9-39), its    *)
(* inputs, what it has built so far, and one request in flight through     *)
(* the generated router.                                                   *)
(***************************************************************************)
VARIABLES
  source,              \* the controller as written: its directives, its functions
  validation,          \* a run of the two validators on a path and a map
  pc,                  \* the step of the pass
  attr,                \* the text of the #[controller(...)] arguments
  impl_block,          \* the functions of the impl: [ident, attrs, sig]
  item,                \* the index of the running loop over impl_block.items
  config,              \* ControllerConfig
  route_registrations, \* the .route(...) calls
  router,              \* the router expression: [routes, layers, nest]
  wrapper_functions,   \* the generated wrappers
  state_type,          \* Option<Type> of router.rs:88-100
  diagnostics,         \* what proc_macro_error was given, in order
  rt                   \* the request in flight

vars == <<source, validation, pc, attr, impl_block, item, config, route_registrations, router,
          wrapper_functions, state_type, diagnostics, rt>>

Idle == [stage |-> "idle", uri |-> <<>>, route |-> 0, found |-> "value", pending |-> <<>>,
         trace |-> <<>>, args |-> <<>>, values |-> <<>>, headers |-> EmptyMap]

NoConfig == [route_prefix |-> None, middlewares |-> <<>>,
             response_headers |-> <<>>, content_type |-> None]

\* controller.rs:15
ParseControllerAttributes ==
  /\ pc = "parse_controller_attributes"
  /\ \E r \in {parse_controller_attributes(attr)} :
       /\ config' = r.config
       /\ diagnostics' = diagnostics \o r.diags
  /\ pc' = "generate_route_registrations"
  /\ UNCHANGED <<source, validation, attr, impl_block, item, route_registrations, router,
                 wrapper_functions, state_type, rt>>

\* router.rs:17-66: one turn of the loop of generate_route_registrations
RegisterRoute ==
  /\ pc = "generate_route_registrations"
  /\ item <= Len(impl_block)
  /\ \E order \in IterOrders(DOMAIN ExtractorsOf(impl_block[item].attrs)),
        porder \in IterOrders(PathParamsOf(impl_block[item].attrs)) :
       \E a \in {Analyze(impl_block[item], order, porder)} :
           /\ diagnostics' = diagnostics \o a.diags
           /\ pc' = IF a.aborted THEN "aborted" ELSE pc
           /\ route_registrations' =
                IF a.some
                THEN Append(route_registrations,
                            RouteRegistration(impl_block[item], a.route, a.params, config))
                ELSE route_registrations
  /\ item' = item + 1
  /\ UNCHANGED <<source, validation, attr, impl_block, config, router, wrapper_functions, state_type, rt>>

\* controller.rs:18-27: the base router; a controller without routes skips
\* the middlewares and the prefix
BaseRouter ==
  /\ pc = "generate_route_registrations"
  /\ item > Len(impl_block)
  /\ router' = generate_base_router(route_registrations)
  /\ pc' = IF route_registrations = <<>> THEN "generate_wrapper_functions"
           ELSE "apply_middlewares"
  /\ item' = 1
  /\ UNCHANGED <<source, validation, attr, impl_block, config, route_registrations, wrapper_functions,
                 state_type, diagnostics, rt>>

\* controller.rs:29-31
ApplyMiddlewares ==
  /\ pc = "apply_middlewares"
  /\ router' = apply_middlewares(router, config.middlewares)
  /\ pc' = "apply_route_prefix"
  /\ UNCHANGED <<source, validation, attr, impl_block, item, config, route_registrations, wrapper_functions,
                 state_type, diagnostics, rt>>

\* controller.rs:32-34
ApplyRoutePrefix ==
  /\ pc = "apply_route_prefix"
  /\ router' = apply_route_prefix(router, config.route_prefix)
  /\ pc' = "generate_wrapper_functions"
  /\ UNCHANGED <<source, validation, attr, impl_block, item, config, route_registrations, wrapper_functions,
                 state_type, diagnostics, rt>>

\* wrappers.rs:10-305: one turn of the loop of generate_wrapper_functions
GenerateWrapper ==
  /\ pc = "generate_wrapper_functions"
  /\ item <= Len(impl_block)
  /\ \E order \in IterOrders(DOMAIN ExtractorsOf(impl_block[item].attrs)),
        porder \in IterOrders(PathParamsOf(impl_block[item].attrs)) :
       \E a \in {Analyze(impl_block[item], order, porder)} :
           /\ diagnostics' = diagnostics \o a.diags
           /\ pc' = IF a.aborted THEN "aborted" ELSE pc
           /\ wrapper_functions' =
                IF a.some
                THEN wrapper_functions \o WrapperFunction(impl_block[item], a.route, a.params)
                ELSE wrapper_functions
  /\ item' = item + 1
  /\ UNCHANGED <<source, validation, attr, impl_block, config, route_registrations, router, state_type, rt>>

\* wrappers.rs:307: the loop is over
WrappersDone ==
  /\ pc = "generate_wrapper_functions"
  /\ item > Len(impl_block)
  /\ pc' = "state_type"
  /\ item' = 1
  /\ UNCHANGED <<source, validation, attr, impl_block, config, route_registrations, router,
                 wrapper_functions, state_type, diagnostics, rt>>

\* router.rs:88-100: one turn of find_map; it stops at the first function
\* with a State parameter
FindStateType ==
  /\ pc = "state_type"
  /\ item <= Len(impl_block)
  /\ ~state_type.some
  /\ \E order \in IterOrders(DOMAIN ExtractorsOf(impl_block[item].attrs)),
        porder \in IterOrders(PathParamsOf(impl_block[item].attrs)) :
       \E a \in {Analyze(impl_block[item], order, porder)} :
           /\ diagnostics' = diagnostics \o a.diags
           /\ state_type' = IF a.some /\ OfKind(a.params, "State") # <<>>
                            THEN Some(OfKind(a.params, "State")[1].ty) ELSE state_type
           /\ pc' = IF a.aborted THEN "aborted" ELSE pc
  /\ item' = item + 1
  /\ UNCHANGED <<source, validation, attr, impl_block, config, route_registrations, router,
                 wrapper_functions, rt>>

\* the functions the emitted impl holds (router.rs:102-123)
EmittedNames ==
  {impl_block[i].ident : i \in DOMAIN impl_block}
    \cup {wrapper_functions[i].name : i \in DOMAIN wrapper_functions}

\* router.rs:102-123: the pass ends.  An emitted error fails the build; so
\* does a registration of a function the emitted impl does not hold.
Emit ==
  /\ pc = "state_type"
  /\ item > Len(impl_block) \/ state_type.some
  /\ pc' = IF \E i \in DOMAIN diagnostics : diagnostics[i].level = "error"
           THEN "failed"
           ELSE IF \E i \in DOMAIN route_registrations :
                     route_registrations[i].target \notin EmittedNames
           THEN "unresolved"
           ELSE "done"
  /\ UNCHANGED <<source, validation, attr, impl_block, item, config, route_registrations, router,
                 wrapper_functions, state_type, diagnostics, rt>>

(***************************************************************************)
(* A request through the generated router.                                 *)
(***************************************************************************)
\* Router::new().nest(prefix, router): the path at which the route of path
\* route_path is served (middleware.rs:38-41); nesting at the root "/" is
\* taken to leave the paths as they are
FullPath(nest, route_path) ==
  IF nest = <<>> \/ nest[1] = <<"/">> THEN route_path
  ELSE IF route_path = <<"/">> THEN nest[1]
  ELSE nest[1] \o route_path

\* the paths of the requests the model sends: each route's path alone, each
\* route's path after the prefix as written, and a path no controller serves
RequestPaths ==
  {router.routes[i].path : i \in DOMAIN router.routes}
    \cup {FullPath(router.nest, router.routes[i].path) : i \in DOMAIN router.routes}
    \cup {<<"/", "nowhere">>}

\* a request for the path uri arrives and matches route i; the layer applied
\* last is the outermost (middleware.rs:25-33); found is what the request
\* holds for the lookups of context values
Receive ==
  /\ pc = "done"
  /\ rt.stage = "idle"
  /\ \E uri \in RequestPaths, i \in DOMAIN router.routes, found \in LookupOutcomes :
       /\ FullPath(router.nest, router.routes[i].path) = uri
       /\ rt' = [Idle EXCEPT !.stage = "layers", !.uri = uri, !.route = i, !.found = found,
                             !.pending = Reverse(router.layers)]
  /\ UNCHANGED <<source, validation, pc, attr, impl_block, item, config, route_registrations, router,
                 wrapper_functions, state_type, diagnostics>>

\* a request for a path that matches no route of the router: the fallback
\* of Router answers 404
NotFound ==
  /\ pc = "done"
  /\ rt.stage = "idle"
  /\ \E uri \in RequestPaths :
       /\ \A i \in DOMAIN router.routes :
            FullPath(router.nest, router.routes[i].path) # uri
       /\ rt' = [Idle EXCEPT !.stage = "not_found", !.uri = uri]
  /\ UNCHANGED <<source, validation, pc, attr, impl_block, item, config, route_registrations, router,
                 wrapper_functions, state_type, diagnostics>>

\* axum::middleware::from_fn(m): m runs, then hands the request inwards
RunMiddleware ==
  /\ rt.stage = "layers"
  /\ rt.pending # <<>>
  /\ rt' = [rt EXCEPT !.pending = Tail(@), !.trace = Append(@, Head(rt.pending))]
  /\ UNCHANGED <<source, validation, pc, attr, impl_block, item, config, route_registrations, router,
                 wrapper_functions, state_type, diagnostics>>

\* ([(name, value); N], response): each pair is inserted in turn, a later
\* pair replacing an earlier one of the same name
RECURSIVE InsertAll(_, _)
InsertAll(m, pairs) ==
  IF pairs = <<>> THEN m
  ELSE InsertAll(Insert(m, Head(pairs)[1], Head(pairs)[2]), Tail(pairs))

WrapperNamed(n) ==
  wrapper_functions[CHOOSE i \in DOMAIN wrapper_functions : wrapper_functions[i].name = n]

\* the route's target runs: the wrapper calls the handler with call_args and
\* returns its response with the header array (wrappers.rs:262-289), or the
\* handler runs directly
CallRoute ==
  /\ rt.stage = "layers"
  /\ rt.pending = <<>>
  /\ \E target \in {router.routes[rt.route].target} :
         IF \E i \in DOMAIN wrapper_functions : wrapper_functions[i].name = target
         THEN rt' = [rt EXCEPT !.stage = "responded",
                               !.trace = Append(@, WrapperNamed(target).handler),
                               !.args = WrapperNamed(target).call_args,
                               !.values = [i \in DOMAIN WrapperNamed(target).call_args |->
                                             Lookup(WrapperNamed(target).call_args[i].expr,
                                                    rt.found)],
                               !.headers = InsertAll(EmptyMap, WrapperNamed(target).header_array)]
         ELSE rt' = [rt EXCEPT !.stage = "responded", !.trace = Append(@, target)]
  /\ UNCHANGED <<source, validation, pc, attr, impl_block, item, config, route_registrations, router,
                 wrapper_functions, state_type, diagnostics>>

\* the response is sent; the router serves the next request
Respond ==
  /\ rt.stage \in {"responded", "not_found"}
  /\ rt' = Idle
  /\ UNCHANGED <<source, validation, pc, attr, impl_block, item, config, route_registrations, router,
                 wrapper_functions, state_type, diagnostics>>

Next ==
  \/ ParseControllerAttributes
  \/ RegisterRoute
  \/ BaseRouter
  \/ ApplyMiddlewares
  \/ ApplyRoutePrefix
  \/ GenerateWrapper
  \/ WrappersDone
  \/ FindStateType
  \/ Emit
  \/ Receive
  \/ NotFound
  \/ RunMiddleware
  \/ CallRoute
  \/ Respond

(***************************************************************************)
(* The inputs: the text of annotations, as the token stream prints it.     *)
(***************************************************************************)
RECURSIVE Join(_, _)
Join(parts, sep) ==
  IF parts = <<>> THEN <<>>
  ELSE IF Len(parts) = 1 THEN parts[1]
  ELSE parts[1] \o <<sep>> \o Join(Tail(parts), sep)

RECURSIVE Concat(_)
Concat(parts) == IF parts = <<>> THEN <<>> ELSE Head(parts) \o Concat(Tail(parts))

Quoted(text) == <<Q>> \o text \o <<Q>>

\* extract(n1 = K1, n2 = K2, ...), for a sequence of <<name, kind text>>
ExtractDirective(pairs) ==
  <<"extract", "(">> \o Join([i \in 1..Len(pairs) |-> pairs[i][1] \o <<"=">> \o pairs[i][2]], ",")
    \o <<")">>

\* header("name", "value")
HeaderDirective(h) == <<"header", "(">> \o Quoted(h[1]) \o <<",">> \o Quoted(h[2]) \o <<")">>

ContentTypeDirective(v) == <<"content_type", "(">> \o Quoted(v) \o <<")">>

\* #[method(directives...)], or #[method] without any
RouteAttribute(method, directives) ==
  [segments |-> 1, ident |-> method,
   text |-> IF directives = <<>> THEN <<method>>
            ELSE <<method, "(">> \o Join(directives, ",") \o <<")">>]

\* the directives of a route annotation: an optional path literal, an
\* optional extract list, headers, an optional content type
RouteDirectives(path, pairs, headers, ct) ==
  (IF path.some THEN <<Quoted(path.v)>> ELSE <<>>)
  \o (IF pairs # <<>> THEN <<ExtractDirective(pairs)>> ELSE <<>>)
  \o [i \in 1..Len(headers) |-> HeaderDirective(headers[i])]
  \o (IF ct.some THEN <<ContentTypeDirective(ct.v)>> ELSE <<>>)

\* #[controller(path = "...", middleware = m, ..., header(...), content_type(...))]
ControllerAttribute(prefix, middlewares, headers, ct) ==
  Join((IF prefix.some THEN <<(<<"path", "=">> \o Quoted(prefix.v))>> ELSE <<>>)
       \o [i \in 1..Len(middlewares) |-> <<"middleware", "=">> \o middlewares[i]]
       \o [i \in 1..Len(headers) |-> HeaderDirective(headers[i])]
       \o (IF ct.some THEN <<ContentTypeDirective(ct.v)>> ELSE <<>>), ",")

\* a function as written: #[method(path?, extract(pairs), header.., content_type?)]
\* fn ident(sig)
\* `others` are the attributes written before the route annotation; the method
\* "none" stands for a function without a route annotation
Written(ident, method, path, pairs, headers, ct, sig) ==
  [ident |-> ident, others |-> <<>>, method |-> method, path |-> path, pairs |-> pairs,
   headers |-> headers, ct |-> ct, sig |-> sig]

Function(w) ==
  [ident |-> w.ident,
   attrs |-> w.others \o
             (IF w.method = "none" THEN <<>>
              ELSE <<RouteAttribute(w.method,
                                    RouteDirectives(w.path, w.pairs, w.headers, w.ct))>>),
   sig |-> w.sig]

\* a controller as written
Controller(prefix, middlewares, headers, ct, functions) ==
  [prefix |-> prefix, middlewares |-> middlewares, headers |-> headers, ct |-> ct,
   functions |-> functions]

NoValidation == [pc |-> "none"]

\* the pass starts on the controller src
InitWith(src) ==
  /\ source = src
  /\ pc = "parse_controller_attributes"
  /\ attr = ControllerAttribute(src.prefix, src.middlewares, src.headers, src.ct)
  /\ impl_block = [i \in 1..Len(src.functions) |-> Function(src.functions[i])]
  /\ item = 1
  /\ config = NoConfig
  /\ route_registrations = <<>>
  /\ router = generate_base_router(<<>>)
  /\ wrapper_functions = <<>>
  /\ state_type = None
  /\ diagnostics = <<>>
  /\ rt = Idle

ParamNames == {<<"a">>, <<"b">>, <<"c">>}

TypeOf(n) == <<"T">> \o n

HandlerName == <<"h">>

DistinctNames(s) == \A i, j \in DOMAIN s : s[i].name = s[j].name => i = j

\* the handler signatures of at most n parameters, a kind chosen for each
KindedSigs(n) ==
  {s \in SeqsUpTo([name : ParamNames, kind : ExtractorType], n) : DistinctNames(s)}

\* the extract list that gives each parameter of s its kind, in the order
\* of the signature
PairsOf(s) ==
  LET ex == SelectSeq(s, LAMBDA q : q.kind # "None")
  IN  [i \in 1..Len(ex) |-> <<ex[i].name, <<ex[i].kind>>>>]

\* a path with one {placeholder} for each Path parameter of s
PathOf(s) ==
  LET ps == SelectSeq(s, LAMBDA q : q.kind = "Path")
  IN  IF ps = <<>> THEN <<"/", "r">>
      ELSE Concat([i \in 1..Len(ps) |-> <<"/", "{">> \o ps[i].name \o <<"}">>])

SigOf(s) == [i \in 1..Len(s) |-> [name |-> s[i].name, ty |-> TypeOf(s[i].name)]]

\* #[post("<path>", extract(...))] async fn h(<s>)
KindedHandler(s) ==
  Written(HandlerName, "post", Some(PathOf(s)), PairsOf(s), <<>>, None, SigOf(s))

M1 == <<"m1">>

\* the controller directives the specifications combine with their handlers
Plain(functions) == Controller(None, <<>>, <<>>, None, functions)

Api(functions) == Controller(Some(<<"/", "api">>), <<M1>>, <<>>, None, functions)

\* controllers of one handler, over every signature and kind assignment
InitWrap ==
  /\ validation = NoValidation
  /\ \E s \in KindedSigs(MaxParams), api \in BOOLEAN :
    InitWith(IF api THEN Api(<<KindedHandler(s)>>) ELSE Plain(<<KindedHandler(s)>>))

Spec == InitWrap /\ [][Next]_vars

(***************************************************************************)
(* Controllers with response headers and content types at both levels.     *)
(***************************************************************************)
H(name, value) == <<(<<name>>), (<<value>>)>>

ControllerHeaders == {H("x-a", "1"), H("x-b", "2")}

RouteHeaders == {H("x-a", "3"), H("x-c", "4")}

\* #[get("/r", extract(...), header(...).., content_type(...))] fn h(<s>)
HeaderHandler(s, headers, ct) ==
  Written(HandlerName, "get", Some(<<"/", "r">>), PairsOf(s), headers, ct, SigOf(s))

InitHeaders ==
  /\ validation = NoValidation
  /\ \E ch \in SeqsUpTo(ControllerHeaders, MaxHeaders),
        rh \in SeqsUpTo(RouteHeaders, MaxHeaders),
        cct \in {None, Some(<<"application/json">>)},
        rct \in {None, Some(<<"text/plain">>)},
        s \in {<<>>, <<[name |-> <<"a">>, kind |-> "Query"]>>} :
       InitWith(Controller(None, <<M1>>, ch, cct, <<HeaderHandler(s, rh, rct)>>))

SpecHeaders == InitHeaders /\ [][Next]_vars

(***************************************************************************)
(* Controllers with middlewares, with and without a prefix and routes.     *)
(***************************************************************************)
MiddlewareNames == {<<"m1">>, <<"m2">>, <<"m3">>}

\* #[get("/<ident>")] fn ident()
PlainHandler(ident) == Written(ident, "get", Some(<<"/">> \o ident), <<>>, <<>>, None, <<>>)

\* #[get("<literal>")] fn ident()
LiteralHandler(ident, literal) == Written(ident, "get", Some(literal), <<>>, <<>>, None, <<>>)

\* path literals with and without a leading '/', and the empty literal
Literals == {<<"/", "h">>, <<"h">>, <<>>}

Prefixes == {None, Some(<<"/", "api">>), Some(<<"api">>), Some(<<>>)}

InitRouter ==
  /\ validation = NoValidation
  /\ \E ms \in SeqsUpTo(MiddlewareNames, MaxMiddlewares),
        prefix \in Prefixes,
        fs \in {<<>>, <<PlainHandler(<<"h">>), PlainHandler(<<"g">>)>>}
                 \cup {<<LiteralHandler(<<"h">>, l)>> : l \in Literals} :
       InitWith(Controller(prefix, ms, <<>>, None, fs))

SpecRouter == InitRouter /\ [][Next]_vars

(***************************************************************************)
(* Route annotations with and without a path literal, with extract lists   *)
(* in every order, for the handler fn h(a: Ta, b: Tb).                     *)
(***************************************************************************)
PathLiterals ==
  {None, Some(<<>>), Some(<<"/", "x">>), Some(<<"x">>), Some(<<"/", "{", "a", "}">>)}

ExtractPairs == {<<n, <<k>>>> : n \in {<<"a">>, <<"b">>}, k \in {"Path", "Query", "Json"}}

TwoParams ==
  <<[name |-> <<"a">>, ty |-> TypeOf(<<"a">>)], [name |-> <<"b">>, ty |-> TypeOf(<<"b">>)]>>

InitParse ==
  /\ validation = NoValidation
  /\ \E path \in PathLiterals,
        pairs \in SeqsUpTo(ExtractPairs, MaxPairs),
        rh \in SeqsUpTo({H("x-a", "3")}, 1),
        rct \in {None, Some(<<"text/plain">>)},
        api \in BOOLEAN :
       \E w \in {Written(HandlerName, "get", path, pairs, rh, rct, TwoParams)} :
         InitWith(IF api THEN Api(<<w>>) ELSE Plain(<<w>>))

SpecParse == InitParse /\ [][Next]_vars

(***************************************************************************)
(* The two validators of a route (route.rs:208-212), run on a path and an  *)
(* extractor map.                                                          *)
(***************************************************************************)
\* route.rs:209
ValidateExtractors ==
  /\ validation.pc = "validate_extractors"
  /\ \E order \in IterOrders(DOMAIN validation.extractors) :
       \E d \in {validate_extractors(validation.extractors, validation.method, order)} :
         validation' = [validation EXCEPT
                          !.pc = IF d # <<>> /\ d[1].level = "abort"
                                 THEN "aborted" ELSE "validate_path_parameters",
                          !.order = order,
                          !.extractor_diags = d]
  /\ UNCHANGED <<source, pc, attr, impl_block, item, config, route_registrations, router,
                 wrapper_functions, state_type, diagnostics, rt>>

\* route.rs:212
ValidatePathParameters ==
  /\ validation.pc = "validate_path_parameters"
  /\ \E porder \in IterOrders(path_params_of(validation.path)) :
       validation' = [validation EXCEPT
                        !.pc = "validated",
                        !.path_diags = validate_path_parameters(validation.path,
                                         validation.extractors, porder, validation.order)]
  /\ UNCHANGED <<source, pc, attr, impl_block, item, config, route_registrations, router,
                 wrapper_functions, state_type, diagnostics, rt>>

NextValidate == ValidateExtractors \/ ValidatePathParameters

\* the validators start on a route; no controller is being expanded
Validation(method, path, extractors) ==
  [pc |-> "validate_extractors", method |-> method, path |-> path,
   extractors |-> extractors, order |-> <<>>, extractor_diags |-> <<>>,
   path_diags |-> <<>>]

\* the maps from some of the names to a kind
MapsOver(names, kinds) == UNION {[S -> kinds] : S \in SUBSET names}

\* the segments a route path is drawn from: a literal, {a}, {b}, :a, and an
\* unclosed brace
Segments ==
  {<<"users">>, <<"{", "a", "}">>, <<"{", "b", "}">>, <<":", "a">>, <<"{", "a">>}

\* "/" and the segments joined, each after a '/'
PathText(segs) ==
  IF segs = <<>> THEN <<"/">> ELSE Concat([i \in 1..Len(segs) |-> <<"/">> \o segs[i]])

InitPaths ==
  /\ InitWith(Plain(<<>>))
  /\ \E segs \in SeqsUpTo(Segments, MaxSegs),
        extractors \in MapsOver({<<"a">>, <<"b">>}, ExtractorType),
        method \in {"get", "post"} :
       validation = Validation(method, PathText(segs), extractors)

SpecPaths == InitPaths /\ [][NextValidate]_vars

EntryNames == {<<n>> : n \in {<<"a", "b", "c", "d">>[i] : i \in 1..MaxEntries}}

EntryKinds == BodyKinds \cup {"Query", "HeaderParam"}

InitExtractors ==
  /\ InitWith(Plain(<<>>))
  /\ \E extractors \in MapsOver(EntryNames, EntryKinds),
        method \in {"get", "delete", "post"} :
       validation = Validation(method, <<"/">>, extractors)

SpecExtractors == InitExtractors /\ [][NextValidate]_vars

(***************************************************************************)
(* The validators run on maps of context-kind entries, in builds with each *)
(* combination of the features headers, cookies and sessions enabled.  The *)
(* features are part of the build's environment: the validators hold no    *)
(* cfg test and do not read them.                                          *)
(***************************************************************************)
Features == {"headers", "cookies", "sessions"}

ContextKinds == {"HeaderParam", "CookieParam", "SessionParam", "Query"}

InitFeatures ==
  /\ InitWith(Plain(<<>>))
  /\ \E extractors \in MapsOver({<<"a">>, <<"b">>}, ContextKinds),
        enabled \in SUBSET Features,
        method \in {"get", "post"} :
       validation = [pc |-> "validate_extractors", method |-> method, path |-> <<"/">>,
                     extractors |-> extractors, order |-> <<>>, extractor_diags |-> <<>>,
                     path_diags |-> <<>>, features |-> enabled]

SpecFeatures == InitFeatures /\ [][NextValidate]_vars

(***************************************************************************)
(* Controllers with functions that are not routes: helpers without         *)
(* attributes, with #[inline], with a doc comment, with                    *)
(* #[tracing::instrument].                                                 *)
(***************************************************************************)
OtherAttributes ==
  {[segments |-> 1, ident |-> "inline", text |-> <<"inline">>],
   [segments |-> 1, ident |-> "doc", text |-> <<"doc", "=", Q, "helper", Q>>],
   [segments |-> 2, ident |-> "instrument", text |-> <<"tracing", ":", ":", "instrument">>]}

\* <others> fn ident()
Helper(ident, others) ==
  [Written(ident, "none", None, <<>>, <<>>, None, <<>>) EXCEPT !.others = others]

InitAttrs ==
  /\ validation = NoValidation
  /\ \E others \in SeqsUpTo(OtherAttributes, MaxAttrs),
        prefix \in {None, Some(<<"/", "api">>)},
        ms \in {<<>>, <<M1>>} :
       \E fs \in {<<>>, <<Helper(<<"f">>, others)>>,
                   <<Helper(<<"f">>, others), PlainHandler(<<"h">>)>>,
                   <<PlainHandler(<<"h">>), Helper(<<"f">>, others)>>} :
         InitWith(Controller(prefix, ms, <<>>, None, fs))

SpecAttrs == InitAttrs /\ [][Next]_vars

(***************************************************************************)
(* Routes whose extract lists hold names that are not extractor kinds, or  *)
(* entries for parameters the handler does not declare, for the handlers   *)
(* fn h(a: Ta, b: Tb) and fn h().                                          *)
(***************************************************************************)
KindPairs == {<<n, <<k>>>> : n \in {<<"a">>, <<"b">>}, k \in {"Query", "Json", "Jsn"}}

InitKinds ==
  /\ validation = NoValidation
  /\ \E pairs \in SeqsUpTo(KindPairs, MaxPairs), sig \in {TwoParams, <<>>}, api \in BOOLEAN :
       \E w \in {Written(HandlerName, "post", Some(<<"/", "r">>), pairs, <<>>, None, sig)} :
         InitWith(IF api THEN Api(<<w>>) ELSE Plain(<<w>>))

SpecKinds == InitKinds /\ [][Next]_vars

(***************************************************************************)
(* Controllers of up to two handlers whose parameters are State or plain   *)
(* parameters, of the types S1 and S2.                                     *)
(***************************************************************************)
StateTypes == {<<"S1">>, <<"S2">>}

\* the signatures fn(), fn(a: T) and fn(a: T, b: U), each parameter with a
\* kind
StateSigs ==
  {<<>>}
    \cup {<<[name |-> <<"a">>, kind |-> k, ty |-> t]>> : k \in {"State", "None"}, t \in StateTypes}
    \cup {<<[name |-> <<"a">>, kind |-> k1, ty |-> t1], [name |-> <<"b">>, kind |-> k2, ty |-> t2]>> :
             k1 \in {"State", "None"}, k2 \in {"State", "None"},
             t1 \in StateTypes, t2 \in StateTypes}

\* #[get("/<ident>", extract(...))] async fn ident(<s>)
StateHandler(ident, s) ==
  Written(ident, "get", Some(<<"/">> \o ident), PairsOf(s), <<>>, None,
          [i \in 1..Len(s) |-> [name |-> s[i].name, ty |-> s[i].ty]])

InitState ==
  /\ validation = NoValidation
  /\ \E s1 \in StateSigs, s2 \in StateSigs, n \in 0..2, api \in BOOLEAN :
       \E fs \in {SubSeq(<<StateHandler(<<"h">>, s1), StateHandler(<<"g">>, s2)>>, 1, n)} :
         InitWith(IF api THEN Api(fs) ELSE Plain(fs))

SpecState == InitState /\ [][Next]_vars

(***************************************************************************)
(* Controllers of up to two functions, each with up to MaxAttrs attributes *)
(* among #[get("/g")], #[post("/p")] and #[tracing::instrument].           *)
(***************************************************************************)
MethodAttributes ==
  {RouteAttribute("get", <<Quoted(<<"/", "g">>)>>),
   RouteAttribute("post", <<Quoted(<<"/", "p">>)>>),
   [segments |-> 2, ident |-> "instrument", text |-> <<"tracing", ":", ":", "instrument">>]}

InitMethods ==
  /\ validation = NoValidation
  /\ \E o1 \in SeqsUpTo(MethodAttributes, MaxAttrs),
        o2 \in SeqsUpTo(MethodAttributes, MaxAttrs),
        n \in 0..2, api \in BOOLEAN :
       \E fs \in {SubSeq(<<Helper(<<"f">>, o1), Helper(<<"h">>, o2)>>, 1, n)} :
         InitWith(IF api THEN Api(fs) ELSE Plain(fs))

SpecMethods == InitMethods /\ [][Next]_vars

(***************************************************************************)
(* Routes over the two placeholders {a} and {b}, in both orders, for       *)
(* handlers that declare the Path parameters a and b in either order,      *)
(* alone or before a third parameter.                                      *)
(***************************************************************************)
TuplePaths == {<<"/", "{", "a", "}", "/", "{", "b", "}">>, <<"/", "{", "b", "}", "/", "{", "a", "}">>}

TupleSigs ==
  {p \o r : p \in {<<[name |-> <<"a">>, kind |-> "Path"], [name |-> <<"b">>, kind |-> "Path"]>>,
                    <<[name |-> <<"b">>, kind |-> "Path"], [name |-> <<"a">>, kind |-> "Path"]>>},
            r \in {<<>>, <<[name |-> <<"c">>, kind |-> "Query"]>>,
                   <<[name |-> <<"c">>, kind |-> "Json"]>>}}

InitTuple ==
  /\ validation = NoValidation
  /\ \E path \in TuplePaths, s \in TupleSigs, api \in BOOLEAN :
       \E w \in {Written(HandlerName, "post", Some(path), PairsOf(s), <<>>, None, SigOf(s))} :
         InitWith(IF api THEN Api(<<w>>) ELSE Plain(<<w>>))

SpecTuple == InitTuple /\ [][Next]_vars

(***************************************************************************)
(* Handlers whose parameters are named as the adapter names its shared     *)
(* bindings: headers, session.                                             *)
(***************************************************************************)
SharedNames == {<<"headers">>, <<"session">>, <<"a">>}

NamedSigs ==
  {s \in SeqsUpTo([name : SharedNames,
                   kind : {"HeaderParam", "SessionParam", "Query", "None"}], 2) :
     DistinctNames(s)}

InitNames ==
  /\ validation = NoValidation
  /\ \E s \in NamedSigs, api \in BOOLEAN :
       \E w \in {Written(HandlerName, "get", Some(<<"/", "r">>), PairsOf(s), <<>>, None, SigOf(s))} :
         InitWith(IF api THEN Api(<<w>>) ELSE Plain(<<w>>))

SpecNames == InitNames /\ [][Next]_vars

(***************************************************************************)
(* Route annotations whose path literal, extract list or header values     *)
(* hold the text the parser of header(...) looks for: the path "/header",  *)
(* a header value with '='.                                                *)
(***************************************************************************)
TextHeaders == {H("x-a", "1"), <<(<<"x-b">>), (<<"a", "=", "b">>)>>}

InitHeaderText ==
  /\ validation = NoValidation
  /\ \E path \in {<<"/", "r">>, <<"/", "header">>},
        s \in {<<>>, <<[name |-> <<"auth">>, kind |-> "HeaderParam"]>>,
               <<[name |-> <<"auth">>, kind |-> "Query"]>>},
        rh \in SeqsUpTo(TextHeaders, MaxHeaders),
        api \in BOOLEAN :
       \E w \in {Written(HandlerName, "get", Some(path), PairsOf(s), rh, None, SigOf(s))} :
         InitWith(IF api THEN Api(<<w>>) ELSE Plain(<<w>>))

SpecHeaderText == InitHeaderText /\ [][Next]_vars

(***************************************************************************)
(* Properties of the validators.                                           *)
(***************************************************************************)
\* the names of the {name} segments of a path whose names are single words
BracePlaceholders(path) ==
  {<<path[j + 1]>> : j \in {i \in 2..(Len(path) - 2) :
                              /\ path[i - 1] = "/" /\ path[i] = "{" /\ path[i + 2] = "}"
                              /\ (i + 2 = Len(path) \/ path[i + 3] = "/")}}

\* the names of the :name segments of such a path
ColonPlaceholders(path) ==
  {<<path[j + 1]>> : j \in {i \in 2..(Len(path) - 1) :
                              /\ path[i - 1] = "/" /\ path[i] = ":" /\ path[i + 1] # "/"
                              /\ (i + 1 = Len(path) \/ path[i + 2] = "/")}}

PathMapped(extractors) == {n \in DOMAIN extractors : extractors[n] = "Path"}

PathDiags(level) ==
  {validation.path_diags[i] : i \in {j \in DOMAIN validation.path_diags :
                                        validation.path_diags[j].level = level}}

\* C1, as stated: validate_path_parameters raises no error if and only if the
\* names mapped to Path are exactly the {name} placeholders of the path; a
\* placeholder without an entry, a placeholder mapped to another kind, and a
\* Path entry naming no placeholder each get an error naming the parameter.
C1_AcceptsIffExact ==
  validation.pc = "validated" =>
    /\ (PathDiags("error") = {})
         <=> (PathMapped(validation.extractors) = BracePlaceholders(validation.path))
    /\ \A n \in (BracePlaceholders(validation.path) \ PathMapped(validation.extractors))
                  \cup (PathMapped(validation.extractors) \ BracePlaceholders(validation.path)) :
         \E d \in PathDiags("error") : d.names = <<n>>

\* C1, amended: validate_path_parameters raises no error if and only if every
\* placeholder of the path ({name} or :name) is mapped to Path; a placeholder
\* without an entry and a placeholder mapped to another kind each get an
\* error naming it, and nothing else gets an error; a Path entry naming no
\* placeholder gets a warning naming it.
C1_PlaceholdersNeedPath ==
  validation.pc = "validated" =>
    LET placeholders == BracePlaceholders(validation.path)
                          \cup ColonPlaceholders(validation.path)
        mapped == PathMapped(validation.extractors)
    IN  /\ (PathDiags("error") = {}) <=> (placeholders \subseteq mapped)
        /\ PathDiags("error") =
             {Diag("error", "path_param_no_extractor", <<n>>) :
                n \in placeholders \ DOMAIN validation.extractors}
             \cup {Diag("error", "path_param_wrong_extractor", <<n>>) :
                     n \in (placeholders \cap DOMAIN validation.extractors) \ mapped}
        /\ PathDiags("warning") =
             {Diag("warning", "path_extractor_not_in_path", <<n>>) :
                n \in mapped \ placeholders}

\* a route is accepted although one of its Path entries names no placeholder,
\* and one of its placeholders is written :name
C1_Witness ==
  /\ validation.pc = "validated"
  /\ PathDiags("error") = {}
  /\ PathDiags("warning") # {}
  /\ ColonPlaceholders(validation.path) # {}

\* C2: a map with two or more body-kind entries aborts with the "multiple
\* body extractors" diagnostic naming them, whatever the method and the
\* order of the map; a map with at most one body-kind entry never does.
C2_MultipleBodyAborts ==
  validation.pc \in {"aborted", "validate_path_parameters", "validated"} =>
    LET bodies == {n \in DOMAIN validation.extractors :
                     validation.extractors[n]
                       \in {"Json", "Form", "Bytes", "Text", "Html", "Xml", "JavaScript"}}
        raised == {validation.extractor_diags[i] :
                     i \in {j \in DOMAIN validation.extractor_diags :
                              validation.extractor_diags[j].kind = "multiple_body"}}
    IN  IF Cardinality(bodies) >= 2
        THEN /\ validation.pc = "aborted"
             /\ \E d \in raised : d.level = "abort" /\ Range(d.names) = bodies
        ELSE /\ validation.pc # "aborted"
             /\ raised = {}

\* three body-kind entries on a GET route have aborted the pass
C2_Witness ==
  /\ validation.pc = "aborted"
  /\ validation.method = "get"
  /\ Cardinality(DOMAIN validation.extractors) = 3
  /\ \E n \in DOMAIN validation.extractors : validation.extractors[n] = "Xml"

(***************************************************************************)
(* Properties of the generated code.                                       *)
(***************************************************************************)
\* the pass has emitted the impl, or failed after generating everything
Generated == pc \in {"state_type", "done", "failed", "unresolved"}

ContentType == <<"content-type">>

\* C3: the headers a route's response carries are the controller's headers
\* overwritten, name by name, by the route's headers.
C3_HeadersMerged ==
  rt.stage = "responded" =>
    \E merged \in {InsertAll(InsertAll(EmptyMap, source.headers),
                             source.functions[rt.route].headers)} :
      /\ DOMAIN rt.headers \ {ContentType} = DOMAIN merged
      /\ \A n \in DOMAIN merged : n \in DOMAIN rt.headers /\ rt.headers[n] = merged[n]

\* C4: the content type a route's response carries is the route's if the
\* route specifies one, else the controller's if it specifies one, else none.
C4_ContentTypeInherited ==
  rt.stage = "responded" =>
    \E expected \in {IF source.functions[rt.route].ct.some
                     THEN source.functions[rt.route].ct ELSE source.ct} :
      IF expected.some
      THEN ContentType \in DOMAIN rt.headers /\ rt.headers[ContentType] = expected.v
      ELSE ContentType \notin DOMAIN rt.headers

\* C5: with middlewares m1..mn declared and a route, the layering calls are
\* emitted in reverse declaration order, and a request passes m1, then m2,
\* ..., then mn, then the handler.
C5_MiddlewareOrder ==
  /\ (pc \in {"apply_route_prefix", "generate_wrapper_functions", "state_type", "done"}
        /\ route_registrations # <<>>)
       => /\ Len(router.layers) = Len(source.middlewares)
          /\ \A i \in DOMAIN router.layers :
               router.layers[i] = source.middlewares[Len(source.middlewares) + 1 - i]
  /\ rt.stage = "responded"
       => rt.trace = source.middlewares \o <<source.functions[rt.route].ident>>

\* a request has passed three different middlewares and reached its handler
C5_Witness ==
  /\ rt.stage = "responded"
  /\ Len(source.middlewares) = 3
  /\ Cardinality(Range(source.middlewares)) = 3
  /\ Len(rt.trace) = 4

\* C6: the adapter calls the handler with one argument per declared
\* parameter, the i-th argument being the one generated for the i-th
\* declared parameter.
C6_ArgsInDeclaredOrder ==
  Generated =>
    \A k \in DOMAIN wrapper_functions :
      /\ Len(wrapper_functions[k].call_args) = Len(source.functions[k].sig)
      /\ \A i \in DOMAIN wrapper_functions[k].call_args :
           wrapper_functions[k].call_args[i].param = source.functions[k].sig[i].name

\* the adapters the pass may generate for the function `it`, one for each
\* iteration order of its maps
WrappersOf(it) ==
  {WrapperFunction(it, a.route, a.params) :
     a \in {x \in {Analyze(it, order, porder) :
                     order \in IterOrders(DOMAIN ExtractorsOf(it.attrs)),
                     porder \in IterOrders(PathParamsOf(it.attrs))} : x.some}}

\* the adapters of the function w written with its extract list in the
\* order f
PermutedWrappers(w, f) ==
  WrappersOf(Function([w EXCEPT !.pairs = [i \in DOMAIN w.pairs |-> w.pairs[f[i]]]]))

\* C7, as stated: every permutation of a route's extract list yields the
\* bindings and the call arguments the list as written yields.
C7_AnyPermutation ==
  (Generated /\ route_registrations # <<>>) =>
    \A f \in IterOrders(DOMAIN source.functions[1].pairs) :
      PermutedWrappers(source.functions[1], f) = {wrapper_functions}

\* C7, amended: every permutation of an extract list that names each
\* parameter at most once yields the bindings and the call arguments the
\* list as written yields.
C7_PermutationOfDistinctNames ==
  (/\ Generated
   /\ route_registrations # <<>>
   /\ \A i, j \in DOMAIN source.functions[1].pairs :
        source.functions[1].pairs[i][1] = source.functions[1].pairs[j][1] => i = j) =>
    \A f \in IterOrders(DOMAIN source.functions[1].pairs) :
      PermutedWrappers(source.functions[1], f) = {wrapper_functions}

\* an adapter was generated from extract(b = ..., a = ...), the reverse of
\* the declared order of the parameters, with two bindings of different kinds
C7_Witness ==
  /\ pc = "done"
  /\ Len(source.functions[1].pairs) = 2
  /\ source.functions[1].pairs[1][1] = <<"b">>
  /\ source.functions[1].pairs[2][1] = <<"a">>
  /\ source.functions[1].pairs[1][2] # source.functions[1].pairs[2][2]
  /\ Len(wrapper_functions) = 1

\* the names of the parameters of the function w that its extract list maps
\* to Path
PathParamsWritten(w) ==
  {w.sig[i].name : i \in {j \in DOMAIN w.sig :
                            \E k \in DOMAIN w.pairs : w.pairs[k] = <<w.sig[j].name, <<"Path">>>>}}

C9_AdapterIffNeeded ==
  pc \in {"done", "failed", "unresolved"} =>
    \A i \in DOMAIN route_registrations :
      \E w \in {source.functions[i]} :
        IF \/ \E j \in DOMAIN w.sig : \E k \in DOMAIN w.pairs : w.pairs[k][1] = w.sig[j].name
           \/ w.headers # <<>> \/ w.ct.some
           \/ source.headers # <<>> \/ source.ct.some
        THEN \E k \in DOMAIN wrapper_functions :
               /\ wrapper_functions[k].name = route_registrations[i].target
               /\ wrapper_functions[k].handler = w.ident
        ELSE route_registrations[i].target = w.ident

\* C10: a route annotation without a path literal yields the path "/",
\* whatever other directives it holds.
C10_DefaultPath ==
  \A i \in DOMAIN route_registrations :
    ~source.functions[i].path.some => route_registrations[i].path = <<"/">>

(***************************************************************************)
(* Properties of the parsed paths, of the routes found, of the router.     *)
(***************************************************************************)
\* a literal with one '/' before it unless it starts with one
Normalized(literal) ==
  IF literal # <<>> /\ literal[1] = "/" THEN literal ELSE <<"/">> \o literal

Ended == pc \in {"done", "failed", "unresolved", "aborted"}

\* C12: a function without a recognized method annotation contributes no
\* route and causes no diagnostic, whatever other attributes it carries
\* (the other functions of these controllers cause none either).
C12_NonRouteIsSilent ==
  /\ diagnostics = <<>>
  /\ Ended =>
       Len(route_registrations)
         = Cardinality({i \in DOMAIN source.functions : source.functions[i].method # "none"})

\* C13: a controller none of whose functions has a recognized method
\* annotation is synthesized without error, with or without a prefix and
\* middlewares; its router has no route and answers not-found to every
\* request.
C13_NoRoutesNoError ==
  (Ended /\ \A i \in DOMAIN source.functions : source.functions[i].method = "none") =>
    /\ pc = "done"
    /\ \A i \in DOMAIN diagnostics : diagnostics[i].level = "warning"
    /\ router.routes = <<>>
    /\ rt.stage \in {"idle", "not_found"}

UnknownKindWritten(w) ==
  \E k \in DOMAIN w.pairs :
    w.pairs[k][2] \notin {<<x>> : x \in {"Path", "Query", "HeaderParam", "CookieParam",
                                         "SessionParam", "State", "Json", "Form", "Bytes",
                                         "Text", "Html", "Xml", "JavaScript"}}

\* the pass has gone through the first function in generate_route_registrations
FirstRegistered == pc # "parse_controller_attributes" /\
                   (pc # "generate_route_registrations" \/ item > 1)

C16_OneWarningForUnmatchedEntry ==
  (/\ Ended
   /\ source.functions[1].sig = <<>>
   /\ source.functions[1].pairs = <<(<<(<<"a">>), (<<"Query">>)>>)>>) =>
    /\ pc = "done"
    /\ Len(route_registrations) = 1
    /\ diagnostics = <<Diag("warning", "extractor_without_param", <<(<<"a">>)>>)>>

\* C17: the diagnostics the pass has given after analysing a handler are
\* the ones every other run on the same source gives, in the same order and
\* with the same names in the same order inside each message, whatever the
\* order in which that run visits the handler's extractor map and the
\* placeholders of its path.
C17_SameDiagnosticsEveryRun ==
  (pc \in {"generate_route_registrations", "aborted"} /\ item = 2) =>
    \A order \in IterOrders(DOMAIN ExtractorsOf(impl_block[1].attrs)),
       porder \in IterOrders(PathParamsOf(impl_block[1].attrs)) :
      diagnostics = parse_controller_attributes(attr).diags
                      \o Analyze(impl_block[1], order, porder).diags

\* the names of the parameters of the function w that its extract list maps
\* to the kind
ParamsWritten(w, kind) ==
  {w.sig[i].name : i \in {j \in DOMAIN w.sig :
                            \E k \in DOMAIN w.pairs : w.pairs[k] = <<w.sig[j].name, <<kind>>>>}}

BodyBindings == {"Json", "Form", "Bytes", "String"}

\* the place of a binding in the precedence Path, State, context sources,
\* body, pass-through; a Query binding has no place in it
BindingRank(b) ==
  CASE b.extractor \in {"Path", "PathTuple"} -> 1
    [] b.extractor = "State" -> 2
    [] b.extractor \in {"HeaderMap", "CookieJar", "Session"} -> 3
    [] b.extractor \in BodyBindings -> 4
    [] b.extractor = "Plain" -> 5
    [] OTHER -> 0

\* C19: in every generated adapter the bindings follow the precedence Path,
\* State, context sources, body-consuming binding, pass-through parameters:
\* no binding comes before a binding of an earlier place.
C19_BindingPrecedence ==
  Generated =>
    \A k \in DOMAIN wrapper_functions :
      \E wp \in {wrapper_functions[k].wrapper_params} :
        \A i, j \in DOMAIN wp :
          (i < j /\ BindingRank(wp[i]) # 0 /\ BindingRank(wp[j]) # 0)
            => BindingRank(wp[i]) <= BindingRank(wp[j])

\* C20: in every generated adapter with a body-consuming binding, no binding
\* that reads the request (Path, Query, State, headers, cookies, session)
\* comes after the body-consuming binding.
C20_NothingReadAfterBody ==
  Generated =>
    \A k \in DOMAIN wrapper_functions :
      \E wp \in {wrapper_functions[k].wrapper_params} :
        \A i, j \in DOMAIN wp :
          (i < j /\ wp[i].extractor \in BodyBindings)
            => wp[j].extractor \notin {"Path", "PathTuple", "Query", "State",
                                        "HeaderMap", "CookieJar", "Session"}

\* C21: in the call an adapter has made, the arguments being evaluated from
\* left to right, no session lookup is evaluated before a header or a cookie
\* lookup.
C21_SessionLookupsLast ==
  rt.stage = "responded" =>
    \A i, j \in DOMAIN rt.args :
      (i < j /\ rt.args[i].expr = "session.get")
        => rt.args[j].expr \notin {"headers.get", "cookies.get"}

\* C22: the validators warn about an entry of kind HeaderParam, CookieParam
\* or SessionParam if and only if the feature the kind requires is not
\* enabled in the build, and raise no error for it.
C22_WarningIffFeatureDisabled ==
  validation.pc = "validated" =>
    /\ \A n \in DOMAIN validation.extractors :
         requires_feature(validation.extractors[n]) # "NoFeature" =>
           ((\E i \in DOMAIN validation.extractor_diags :
               validation.extractor_diags[i] = Diag("warning", "feature", <<n>>))
              <=> requires_feature(validation.extractors[n]) \notin validation.features)
    /\ \A i \in DOMAIN validation.extractor_diags :
         validation.extractor_diags[i].level = "warning"

\* the path of the function w is written without a placeholder
WrittenWithoutPlaceholder(w) ==
  w.path.some /\ \A i \in DOMAIN w.path.v : w.path.v[i] \notin {"{", ":"}

StateTypesWritten(w) ==
  {w.sig[i].ty : i \in {j \in DOMAIN w.sig : w.sig[j].name \in ParamsWritten(w, "State")}}

\* C24: after a pass without error every handler has at most one State
\* parameter, the state type of the router is the declared type of every
\* State parameter of the controller, and a controller without State
\* parameters has a router without state type.
C24_OneStateType ==
  pc = "done" =>
    /\ \A k \in DOMAIN source.functions :
         /\ Cardinality(ParamsWritten(source.functions[k], "State")) <= 1
         /\ \A t \in StateTypesWritten(source.functions[k]) : state_type = Some(t)
    /\ (\A k \in DOMAIN source.functions : ParamsWritten(source.functions[k], "State") = {})
         => ~state_type.some

\* the number of bindings of the kind in a parameter list
BindingsOf(wp, extractor) == Cardinality({i \in DOMAIN wp : wp[i].extractor = extractor})

\* C25: every generated adapter binds the headers once if its handler has a
\* HeaderParam parameter and not at all otherwise, and likewise the cookies
\* for CookieParam and the session for SessionParam parameters.
C25_SharedSourceBoundOnce ==
  Generated =>
    \A k \in DOMAIN wrapper_functions, i \in DOMAIN source.functions :
      wrapper_functions[k].handler = source.functions[i].ident =>
        \E wp \in {wrapper_functions[k].wrapper_params}, w \in {source.functions[i]} :
          /\ BindingsOf(wp, "HeaderMap") = IF ParamsWritten(w, "HeaderParam") = {} THEN 0 ELSE 1
          /\ BindingsOf(wp, "CookieJar") = IF ParamsWritten(w, "CookieParam") = {} THEN 0 ELSE 1
          /\ BindingsOf(wp, "Session") = IF ParamsWritten(w, "SessionParam") = {} THEN 0 ELSE 1

\* the adapter of a handler with two HeaderParam parameters binds the
\* headers once and looks both up
C25_Witness ==
  /\ pc = "done"
  /\ Cardinality(ParamsWritten(source.functions[1], "HeaderParam")) = 2
  /\ Len(wrapper_functions) = 1
  /\ BindingsOf(wrapper_functions[1].wrapper_params, "HeaderMap") = 1
  /\ Len(wrapper_functions[1].call_args) = 2

\* the attribute is a recognized method annotation
Recognized(a) ==
  a.segments = 1 /\ a.ident \in {"get", "head", "delete", "options", "patch", "post", "put",
                                  "trace", "connect"}

\* the functions of the controller that carry a recognized method annotation
Handlers ==
  {i \in DOMAIN source.functions :
     \E j \in DOMAIN source.functions[i].others : Recognized(source.functions[i].others[j])}

\* C26: once the registrations are generated, the list holds one entry for
\* each function with a recognized method annotation, in the order of the
\* functions, each for the first recognized annotation of its function.
C26_OneRouteForFirstMethod ==
  pc \in {"apply_middlewares", "apply_route_prefix", "generate_wrapper_functions",
          "state_type", "done"} =>
    /\ Len(route_registrations) = Cardinality(Handlers)
    /\ \A i \in Handlers :
         \E k \in {Cardinality({h \in Handlers : h <= i})},
            o \in {source.functions[i].others} :
           \E j \in {Min({x \in DOMAIN o : Recognized(o[x])})} :
             /\ route_registrations[k].target = source.functions[i].ident
             /\ route_registrations[k].method = o[j].ident
             /\ route_registrations[k].path
                  = (IF o[j].ident = "get" THEN <<"/", "g">> ELSE <<"/", "p">>)

\* two functions are registered in their order, the first one for the post
\* of its annotations #[post("/p")] #[get("/g")]
C26_Witness ==
  /\ pc = "done"
  /\ Len(source.functions) = 2
  /\ Len(source.functions[1].others) = 2
  /\ source.functions[1].others[1].ident = "post"
  /\ source.functions[1].others[2].ident = "get"
  /\ Len(route_registrations) = 2
  /\ route_registrations[1].method = "post"
  /\ route_registrations[2].target = <<"h">>

\* the names of the functions of the controller
HandlerNames == {source.functions[i].ident : i \in DOMAIN source.functions}

\* C27: once the adapters are generated, the adapters the registrations
\* name are exactly the adapters generated; no adapter is generated twice
\* and none has the name of a function of the controller.
C27_AdaptersMatchRegistrations ==
  Generated =>
    /\ {route_registrations[i].target : i \in DOMAIN route_registrations} \ HandlerNames
         = {wrapper_functions[k].name : k \in DOMAIN wrapper_functions}
    /\ \A k, l \in DOMAIN wrapper_functions :
         wrapper_functions[k].name = wrapper_functions[l].name => k = l
    /\ \A k \in DOMAIN wrapper_functions : wrapper_functions[k].name \notin HandlerNames

\* the place of the placeholder {n} in a path
PlaceOf(path, n) == CHOOSE i \in DOMAIN path : i > 1 /\ path[i - 1] = "{" /\ <<path[i]>> = n

\* C28: the names of the Path tuple of a generated adapter are listed in
\* the order in which their placeholders occur in the path of the route.
C28_TupleInPathOrder ==
  Generated =>
    \A k \in DOMAIN wrapper_functions :
      \E b \in {wrapper_functions[k].wrapper_params[1]}, path \in {source.functions[1].path.v} :
        b.extractor = "PathTuple" =>
          \A i, j \in DOMAIN b.names :
            i < j => PlaceOf(path, b.names[i]) < PlaceOf(path, b.names[j])

\* the places of a parameter list at which a name is bound
Places(wp) == UNION {{<<i, x>> : x \in DOMAIN wp[i].names} : i \in DOMAIN wp}

\* C29: after the adapters of a pass without error are generated, the names
\* each adapter binds in its parameter list are pairwise distinct.
C29_DistinctBindingNames ==
  (Generated /\ \A i \in DOMAIN diagnostics : diagnostics[i].level = "warning") =>
    \A k \in DOMAIN wrapper_functions :
      \E wp \in {wrapper_functions[k].wrapper_params} :
        \A p, q \in Places(wp) :
          wp[p[1]].names[p[2]] = wp[q[1]].names[q[2]] => p = q

\* C30: the response headers of a parsed route annotation, which its adapter
\* returns with the response, are the (name, value) pairs of its header(...)
\* directives in the order written; an annotation without header directive
\* has none.
C30_HeadersAsWritten ==
  Generated =>
    IF wrapper_functions = <<>>
    THEN source.functions[1].headers = <<>>
    ELSE wrapper_functions[1].header_array = source.functions[1].headers

====
